---- MODULE Spec2Model ----
(***************************************************************************)
(* Model of audiototext-backend/app.py: the submission endpoint, the job   *)
(* queue, the background worker thread, the transcription orchestrator     *)
(* (transcribe_file) and the mail dispatcher (send_email_with_fallback).   *)
(*                                                                         *)
(* Strings are sequences of Unicode code points, byte strings sequences of *)
(* byte values.  Durations are integer milliseconds, as pydub's len().     *)
(***************************************************************************)
EXTENDS Integers, Sequences, FiniteSets, TLC

----------------------------------------------------------------------------
(* Bounds of the model *)

\* number of Submit calls made in one run (each accepted call is one Job)
MaxJobs == 2

\* transcribe_file is explored on durations up to MaxDurSteps half-segments
MaxDurSteps == 9

----------------------------------------------------------------------------
(* Configuration (defaults of the environment variables) *)

SEG_LEN_SECONDS == 20

CHUNK_THRESHOLD_S == 40

MAX_UPLOAD_S == 600

----------------------------------------------------------------------------
(* Strings *)

Requests == 1..MaxJobs

Threads == 1..MaxJobs

\* the characters used by the model, by code point
NL == 10

SP == 32

AT == 64

SLASH == 47

EMDASH == 8212

RECURSIVE Digits(_)
\* str(n) for a natural number n
Digits(n) ==
    IF n < 10 THEN <<48 + n>> ELSE Digits(n \div 10) \o <<48 + (n % 10)>>

RECURSIVE Utf8(_)
\* s.encode("utf-8"): one, two or three bytes per code point
Utf8(s) ==
    IF s = <<>> THEN <<>>
    ELSE LET c == Head(s)
             b == IF c < 128 THEN <<c>>
                  ELSE IF c < 2048 THEN <<192 + (c \div 64), 128 + (c % 64)>>
                  ELSE <<224 + (c \div 4096), 128 + ((c \div 64) % 64), 128 + (c % 64)>>
         IN  b \o Utf8(Tail(s))

IsSpace(c) == c \in {SP, NL, 13, 9}

RECURSIVE LStrip(_)
LStrip(s) == IF s # <<>> /\ IsSpace(Head(s)) THEN LStrip(Tail(s)) ELSE s

RECURSIVE RStrip(_)
RStrip(s) ==
    IF s # <<>> /\ IsSpace(s[Len(s)]) THEN RStrip(SubSeq(s, 1, Len(s) - 1)) ELSE s

\* str.strip()
Strip(s) == RStrip(LStrip(s))

RECURSIVE Join(_, _)
\* sep.join(parts)
Join(sep, parts) ==
    IF parts = <<>> THEN <<>>
    ELSE IF Len(parts) = 1 THEN parts[1]
    ELSE parts[1] \o sep \o Join(sep, Tail(parts))

RECURSIVE NonEmpty(_)
\* [p for p in parts if p]
NonEmpty(parts) ==
    IF parts = <<>> THEN <<>>
    ELSE IF Head(parts) = <<>> THEN NonEmpty(Tail(parts))
    ELSE <<Head(parts)>> \o NonEmpty(Tail(parts))

\* f"{duration_s:.1f}" for duration_s = ms / 1000.0 (ms is never a tie,
\* ms % 100 = 50, on the durations the model explores)
Fmt1f(ms) ==
    LET tenths == (ms + 50) \div 100
    IN  Digits(tenths \div 10) \o <<46, 48 + (tenths % 10)>>

----------------------------------------------------------------------------
(* Audio helpers *)

\* seg_len_ms = int(seg_len_s * 1000)
SegLenMs == SEG_LEN_SECONDS * 1000

RECURSIVE Range(_, _, _)
\* list(range(start, stop, step)) for step > 0
Range(start, stop, step) ==
    IF start >= stop THEN <<>> ELSE <<start>> \o Range(start + step, stop, step)

Min(a, b) == IF a <= b THEN a ELSE b

\* the last window not clipped to the end of the audio
split_audio_to_files_unclipped(duration_ms) ==
    LET starts == Range(0, duration_ms, SegLenMs)
    IN  [i \in 1..Len(starts) |->
            [start_ms |-> starts[i], end_ms |-> starts[i] + SegLenMs]]

\* The segments split_audio_to_files cuts from an audio of duration_ms:
\* one [start_ms, end_ms] window per exported chunk file, in list order.
split_audio_to_files(duration_ms) ==
    LET starts == Range(0, duration_ms, SegLenMs)
    IN  [i \in 1..Len(starts) |->
            [start_ms |-> starts[i],
             end_ms   |-> Min(starts[i] + SegLenMs, duration_ms)]]

\* transcribe_chunk: the engine's raw text, stripped
transcribe_chunk(raw) == Strip(raw)

\* the SEG_LEN_SECONDS windows of an audio of duration_ms, numbered from 1
Windows(duration_ms) == 1..Len(Range(0, duration_ms, SegLenMs))

RECURSIVE Words(_, _, _)
\* What the engine hears in windows lo..hi of an audio: one word (a letter
\* naming the window) per window that holds speech, blanks around each
Words(audio, lo, hi) ==
    IF lo > hi THEN <<SP>>
    ELSE IF lo \in audio.speech THEN <<SP, 96 + lo>> \o Words(audio, lo + 1, hi)
    ELSE Words(audio, lo + 1, hi)

Raise == <<0>>

\* What model.transcribe(path) can do on windows lo..hi: raise, or return
\* the raw text res.get("text", "")
InferOutcomes(audio, lo, hi) == {Raise, Words(audio, lo, hi)}

\* the marker numbered from 0 (enumerate without start=1)
ChunkErrorMarker_zero_based(idx) == <<91, 69>> \o Digits(idx - 1) \o <<58, 33, 93>>

\* f"[ERROR transcribing chunk {idx}: {e}]"
ChunkErrorMarker(idx) == <<91, 69>> \o Digits(idx) \o <<58, 33, 93>>

\* f"(Chunked - {len(out_paths)} chunks, original duration {duration_s:.1f}s)"
ChunkedSummary(n, ms) ==
    <<40, 67, EMDASH>> \o Digits(n) \o <<44>> \o Fmt1f(ms) \o <<115, 41>>

\* f"(Single-pass - duration {duration_s:.1f}s)"
SingleSummary(ms) == <<40, 83, EMDASH>> \o Fmt1f(ms) \o <<115, 41>>

\* f"[ERROR] Transcription failed: {e}\n\n{traceback.format_exc()}"
TranscriptionFailed == <<91, 69, 93, 33, NL, NL, 84>>

Blank == <<NL, NL>>

\* the parts joined newest first
ChunkedTranscript_reversed(parts, n, ms) ==
    ChunkedSummary(n, ms) \o Blank \o
    Join(Blank, NonEmpty([i \in 1..Len(parts) |-> parts[Len(parts) + 1 - i]]))

\* joined = "\n\n".join([p for p in parts if p]); return summary + "\n\n" + joined
ChunkedTranscript(parts, n, ms) ==
    ChunkedSummary(n, ms) \o Blank \o Join(Blank, NonEmpty(parts))

\* return summary + "\n\n" + text
SingleTranscript(text, ms) == SingleSummary(ms) \o Blank \o text

----------------------------------------------------------------------------
(* Mail dispatcher *)

\* "@" in email
HasAt(email) == \E i \in DOMAIN email : email[i] = AT

\* EmailMessage refuses a header value of more than one line
\* (len(value.splitlines()) > 1) with ValueError.
HeaderInjection(v) ==
    \E i \in 1..(Len(v) - 1) :
        /\ v[i] \in {NL, 13}
        /\ ~(v[i] = 13 /\ v[i + 1] = NL /\ i + 1 = Len(v))

\* maintype, subtype = mime.split("/", 1) raises without a "/"
MimeSplits(mime) == \E i \in DOMAIN mime : mime[i] = SLASH

\* What the SMTP session can do: deliver, or fail at one of its stages
TransportOutcomes == {"sent", "connect", "starttls", "login", "send_message"}

\* What open(fallback_save_path, "wb") / f.write can do
DiskOutcomes == {"written", "oserror"}

\* an empty string stands for both None and ""
Truthy(x) == x # <<>>

\* f"SMTP send error: {e}\n{traceback.format_exc()}"
SmtpError(net) ==
    <<83, 77, 84, 80, 58>> \o
    <<CASE net = "connect" -> 99 [] net = "starttls" -> 116
        [] net = "login" -> 108 [] OTHER -> 115>>

\* the fallback payload written as text instead of bytes
FallbackPayload_unencoded(body_text, attachments) ==
    IF Truthy(attachments) /\ Truthy(attachments[1].data)
    THEN attachments[1].data
    ELSE body_text

\* lines 160-165: what is written to the fallback path
FallbackPayload(body_text, attachments) ==
    IF Truthy(attachments) /\ Truthy(attachments[1].data)
    THEN attachments[1].data
    ELSE Utf8(body_text)

\* the fallback written without the early return of line 153
FallbackWrites_always(fallback_save_path, body_text, attachments, delivered) ==
    IF Truthy(fallback_save_path)
    THEN <<FallbackPayload(body_text, attachments)>>
    ELSE <<>>

\* lines 153-168: the payloads handed to open(fallback_save_path, "wb"), in
\* order: none after a delivery (return True, None) or without a path
FallbackWrites(fallback_save_path, body_text, attachments, delivered) ==
    IF delivered THEN <<>>
    ELSE IF Truthy(fallback_save_path)
    THEN <<FallbackPayload(body_text, attachments)>>
    ELSE <<>>

\* a second session opened after a failed one
SmtpSessions_retry(net) == IF net = "sent" THEN 1 ELSE 2

\* lines 145-155: one "with smtplib.SMTP(...)" block, entered once, whatever
\* stage of the session fails
SmtpSessions(net) == 1

\* send_email_with_fallback, as a function of its arguments and of what the
\* transport (net) and the file system (disk) do.  The result records
\*   raised : an exception left the function (message construction, 134-143)
\*   ok/err : the returned pair (err = <<>> is None)
\*   sends  : number of SMTP sessions opened
\*   writes : the payloads handed to open(fallback_save_path, "wb"), in order
\*   saved  : the write went through
send_email_with_fallback(to_address, subject, body_text, attachments, fallback_save_path, net, disk) ==
    IF \/ HeaderInjection(to_address)
       \/ HeaderInjection(subject)
       \/ \E i \in DOMAIN attachments : ~MimeSplits(attachments[i].mime)
    THEN [raised |-> TRUE, ok |-> FALSE, err |-> <<>>, sends |-> 0,
          writes |-> <<>>, saved |-> FALSE]
    ELSE LET delivered == (net = "sent")
             writes == FallbackWrites(fallback_save_path, body_text, attachments, delivered)
         IN  [raised |-> FALSE,
              ok     |-> delivered,
              err    |-> IF delivered THEN <<>> ELSE SmtpError(net),
              sends  |-> SmtpSessions(net),
              writes |-> writes,
              saved  |-> (writes # <<>> /\ disk = "written")]

\* EMAIL_SUBJECT_TEMPLATE.format(job_id=job_id)
Subject(job_id) == <<74, SP>> \o Digits(job_id)

\* the notification body built around the transcript
Body(job_id, text) == <<72, NL>> \o Digits(job_id) \o Blank \o text \o <<NL, 82>>

\* [(f"transcript_{job_id}.txt", transcript.encode("utf-8"), "text/plain")]
Attachments(job_id, text) ==
    << [fname |-> <<116>> \o Digits(job_id),
        data  |-> Utf8(text),
        mime  |-> <<116, SLASH, 112>>] >>

\* os.path.join(tempfile.gettempdir(), f"transcript_fallback_{job_id}.txt")
FallbackPath(job_id) == <<102>> \o Digits(job_id)

----------------------------------------------------------------------------
(* State *)

VARIABLES
    req,             \* the Submit calls: position, form fields, uploaded audio
    loopOwner,       \* the Submit coroutine running on the event loop (0: none)
    job_q,           \* queue.Queue of jobs, head first
    WORKER_THREAD,   \* the thread start_worker created last (0: None)
    SHUTDOWN_EVENT,  \* threading.Event
    pc,              \* position of each worker thread
    job,             \* the job a worker thread holds (0: none)
    transcript,      \* worker_loop's local transcript
    tr,              \* transcribe_file's locals, per thread
    sent,            \* worker_loop's local ok (the dispatcher's verdict)
    dispatches,      \* calls of send_email_with_fallback made so far, by job
    uploads,         \* upload_<uuid> files on disk, by job
    tmpfiles,        \* whisper_input_* and whisper_chunk_* files on disk
    fallback,        \* transcript_fallback_<job_id>.txt, by job: whether it
                     \* exists and how many times it was opened for writing
    sends,           \* SMTP sessions opened so far, by job
    enqueued,        \* jobs in the order job_q.put accepted them
    dequeued,        \* jobs in the order job_q.get returned them
    done,            \* jobs for which job_q.task_done() was called
    dIn,             \* arguments of a direct send_email_with_fallback call
    dOut             \* its result

vars == <<req, loopOwner, job_q, WORKER_THREAD, SHUTDOWN_EVENT, pc, job, transcript, tr, sent, dispatches, uploads, tmpfiles, fallback, sends, enqueued, dequeued, done, dIn, dOut>>

submitVars == <<req, loopOwner>>

workerVars == <<pc, job, transcript, tr, sent>>

histVars == <<enqueued, dequeued, done>>

callVars == <<dIn, dOut>>

\* the addresses a submitter may post: "u", "a@b", and "a@" NL "b"
Emails == { <<117>>, <<97, AT, 98>>, <<97, AT, NL, 98>> }

NoAudio == [dec |-> FALSE, ms |-> 0, speech |-> {}]

\* a decodable clip of ms milliseconds with speech in every window
Clip(ms) == [dec |-> TRUE, ms |-> ms, speech |-> Windows(ms)]

\* the uploads a submitter may post: an undecodable file, a clip exactly at
\* the chunking threshold, one a millisecond above it, one above the ceiling
SysAudio ==
    { NoAudio,
      Clip(CHUNK_THRESHOLD_S * 1000),
      Clip(CHUNK_THRESHOLD_S * 1000 + 1),
      [dec |-> TRUE, ms |-> MAX_UPLOAD_S * 1000 + 1, speech |-> {}] }

\* a Submit call; late records that its job was put on the queue with
\* SHUTDOWN_EVENT already set
NoReq == [pc |-> "idle", email |-> <<>>, audio |-> NoAudio, late |-> FALSE]

\* transcribe_file's locals; exc names the call whose exception left
\* transcribe_file ("none": it returned, or has not ended yet)
NoTr == [wav |-> FALSE, dur |-> 0, out_paths |-> <<>>, idx |-> 0, parts |-> <<>>, calls |-> <<>>, failed |-> {}, exc |-> "none"]

NoFile == [exists |-> FALSE, attempts |-> 0]

NoCall == [called |-> FALSE]

Init ==
    /\ req = [r \in Requests |-> NoReq]
    /\ loopOwner = 0
    /\ job_q = <<>>
    /\ WORKER_THREAD = 0
    /\ SHUTDOWN_EVENT = FALSE
    /\ pc = [t \in Threads |-> "none"]
    /\ job = [t \in Threads |-> 0]
    /\ transcript = [t \in Threads |-> <<>>]
    /\ tr = [t \in Threads |-> NoTr]
    /\ sent = [t \in Threads |-> FALSE]
    /\ dispatches = [j \in Requests |-> 0]
    /\ uploads = {}
    /\ tmpfiles = {}
    /\ fallback = [j \in Requests |-> NoFile]
    /\ sends = [j \in Requests |-> 0]
    /\ enqueued = <<>>
    /\ dequeued = <<>>
    /\ done = {}
    /\ dIn = NoCall
    /\ dOut = NoCall

\* threading.Thread.is_alive()
is_alive(t) == pc[t] \notin {"none", "dead"}

----------------------------------------------------------------------------
(* Submission endpoint.  submit is a coroutine: its only suspension point *)
(* is "await audio.read()", so the code after it runs on the event loop   *)
(* without interleaving with other Submit calls, but concurrently with    *)
(* the worker thread.  Several calls may be suspended in the await at the *)
(* same time.  The calls are numbered in the order in which they resume   *)
(* from it: the step before the await touches only the call's own form    *)
(* fields and upload file, which no other call and no worker step reads   *)
(* before the job is queued, so the numbering loses no behaviour.         *)

\* lines 229-238: address check, upload file opened, await audio.read()
SubmitBegin(r) ==
    /\ loopOwner = 0
    /\ req[r].pc = "idle"
    /\ IF r = 1 THEN TRUE ELSE req[r - 1].pc # "idle"
    /\ \E email \in Emails :
         IF ~HasAt(email)
         THEN /\ req' = [req EXCEPT ![r] = [NoReq EXCEPT !.pc = "invalid_email"]]
              /\ UNCHANGED uploads
         ELSE /\ req' = [req EXCEPT ![r] = [pc |-> "reading", email |-> email, audio |-> NoAudio, late |-> FALSE]]
              /\ uploads' = uploads \cup {r}
    /\ UNCHANGED <<loopOwner, job_q, WORKER_THREAD, SHUTDOWN_EVENT, pc, job, transcript, tr, sent, dispatches, tmpfiles, fallback, sends, enqueued, dequeued, done, dIn, dOut>>

\* the job put on the queue before the duration guard
SubmitGuard_put_first(r) ==
    /\ loopOwner = 0
    /\ req[r].pc = "reading"
    /\ IF r = 1 THEN TRUE ELSE req[r - 1].pc # "reading"
    /\ job_q' = Append(job_q, r)
    /\ enqueued' = Append(enqueued, r)
    /\ \E audio \in SysAudio :
         IF audio.dec /\ audio.ms > MAX_UPLOAD_S * 1000
         THEN /\ req' = [req EXCEPT ![r].pc = "too_long", ![r].audio = audio]
              /\ uploads' = uploads \ {r}
              /\ UNCHANGED loopOwner
         ELSE /\ req' = [req EXCEPT ![r].pc = "put", ![r].audio = audio, ![r].late = SHUTDOWN_EVENT]
              /\ loopOwner' = r
              /\ UNCHANGED uploads
    /\ UNCHANGED <<WORKER_THREAD, SHUTDOWN_EVENT, pc, job, transcript, tr, sent, dispatches, tmpfiles, fallback, sends, dequeued, done, dIn, dOut>>

\* lines 238-261: the uploaded bytes arrive and are written to the upload
\* file, the duration guard runs on them, then job_q.put(job)
SubmitGuard(r) ==
    /\ loopOwner = 0
    /\ req[r].pc = "reading"
    /\ IF r = 1 THEN TRUE ELSE req[r - 1].pc # "reading"
    /\ \E audio \in SysAudio :
         IF audio.dec /\ audio.ms > MAX_UPLOAD_S * 1000
         THEN /\ req' = [req EXCEPT ![r] = [NoReq EXCEPT !.pc = "too_long"]]
              /\ uploads' = uploads \ {r}
              /\ UNCHANGED <<loopOwner, job_q, enqueued>>
         ELSE /\ req' = [req EXCEPT ![r].pc = "put", ![r].audio = audio, ![r].late = SHUTDOWN_EVENT]
              /\ job_q' = Append(job_q, r)
              /\ enqueued' = Append(enqueued, r)
              /\ loopOwner' = r
              /\ UNCHANGED uploads
    /\ UNCHANGED <<WORKER_THREAD, SHUTDOWN_EVENT, pc, job, transcript, tr, sent, dispatches, tmpfiles, fallback, sends, dequeued, done, dIn, dOut>>

\* the thread start_worker creates: the first one not used yet
NewThread == CHOOSE t \in DOMAIN pc : pc[t] = "none" /\ \A u \in DOMAIN pc : pc[u] = "none" => t <= u

\* start_worker without the is_alive test
start_worker_always ==
    /\ WORKER_THREAD' = NewThread
    /\ pc' = [pc EXCEPT ![NewThread] = "loop"]

\* lines 219-223
start_worker ==
    IF WORKER_THREAD = 0 \/ ~is_alive(WORKER_THREAD)
    THEN /\ WORKER_THREAD' = NewThread
         /\ pc' = [pc EXCEPT ![NewThread] = "loop"]
    ELSE UNCHANGED <<WORKER_THREAD, pc>>

\* the acceptance response without the call of start_worker
SubmitStart_without_start(r) ==
    /\ loopOwner = r
    /\ req[r].pc = "put"
    /\ req' = [req EXCEPT ![r].pc = "accepted"]
    /\ loopOwner' = 0
    /\ UNCHANGED <<job_q, WORKER_THREAD, SHUTDOWN_EVENT, pc, job, transcript, tr, sent, dispatches, uploads, tmpfiles, fallback, sends, enqueued, dequeued, done, dIn, dOut>>

\* lines 262-264: start_worker(), then the acceptance response
SubmitStart(r) ==
    /\ loopOwner = r
    /\ req[r].pc = "put"
    /\ start_worker  \* sets WORKER_THREAD' and pc'
    /\ req' = [req EXCEPT ![r].pc = "accepted"]
    /\ loopOwner' = 0
    /\ UNCHANGED <<job_q, SHUTDOWN_EVENT, job, transcript, tr, sent, dispatches, uploads, tmpfiles, fallback, sends, enqueued, dequeued, done, dIn, dOut>>

----------------------------------------------------------------------------
(* Shutdown handler (atexit, on the main thread) *)

\* a shutdown that also ends the worker thread where it stands
shutdown_cancels ==
    /\ loopOwner = 0
    /\ ~SHUTDOWN_EVENT
    /\ SHUTDOWN_EVENT' = TRUE
    /\ pc' = [t \in Threads |-> IF is_alive(t) THEN "dead" ELSE pc[t]]
    /\ UNCHANGED <<req, loopOwner, job_q, WORKER_THREAD, job, transcript, tr, sent, dispatches, uploads, tmpfiles, fallback, sends, enqueued, dequeued, done, dIn, dOut>>

\* lines 272-275: SHUTDOWN_EVENT.set(); join(timeout=2.0) then waits for the
\* thread to end or for the timeout and changes nothing
shutdown ==
    /\ loopOwner = 0
    /\ ~SHUTDOWN_EVENT
    /\ SHUTDOWN_EVENT' = TRUE
    /\ UNCHANGED <<req, loopOwner, job_q, WORKER_THREAD, pc, job, transcript, tr, sent, dispatches, uploads, tmpfiles, fallback, sends, enqueued, dequeued, done, dIn, dOut>>

----------------------------------------------------------------------------
(* Worker thread *)

\* the temp files of a job: whisper_input_* (0) and whisper_chunk_*_i (i >= 1)
WavFile(j) == <<j, 0>>

ChunkFile(j, i) == <<j, i>>

\* a loop that never tests the event (while True)
WorkerLoop_ignores_event(t) ==
    /\ pc[t] = "loop"
    /\ pc' = [pc EXCEPT ![t] = "get"]
    /\ UNCHANGED <<req, loopOwner, job_q, WORKER_THREAD, SHUTDOWN_EVENT, job, transcript, tr, sent, dispatches, uploads, tmpfiles, fallback, sends, enqueued, dequeued, done, dIn, dOut>>

\* line 174: while not SHUTDOWN_EVENT.is_set(); the function returns otherwise
WorkerLoop(t) ==
    /\ pc[t] = "loop"
    /\ pc' = [pc EXCEPT ![t] = IF SHUTDOWN_EVENT THEN "dead" ELSE "get"]
    /\ UNCHANGED <<req, loopOwner, job_q, WORKER_THREAD, SHUTDOWN_EVENT, job, transcript, tr, sent, dispatches, uploads, tmpfiles, fallback, sends, enqueued, dequeued, done, dIn, dOut>>

\* a queue handing out its newest item (queue.LifoQueue)
WorkerGet_lifo(t) ==
    /\ pc[t] = "get"
    /\ job_q # <<>>
    /\ job' = [job EXCEPT ![t] = job_q[Len(job_q)]]
    /\ job_q' = SubSeq(job_q, 1, Len(job_q) - 1)
    /\ dequeued' = Append(dequeued, job_q[Len(job_q)])
    /\ pc' = [pc EXCEPT ![t] = "transcribe"]
    /\ UNCHANGED <<req, loopOwner, WORKER_THREAD, SHUTDOWN_EVENT, transcript, tr, sent, dispatches, uploads, tmpfiles, fallback, sends, enqueued, done, dIn, dOut>>

\* line 176: job_q.get(timeout=1.0) returns the head
WorkerGet(t) ==
    /\ pc[t] = "get"
    /\ job_q # <<>>
    /\ job' = [job EXCEPT ![t] = Head(job_q)]
    /\ job_q' = Tail(job_q)
    /\ dequeued' = Append(dequeued, Head(job_q))
    /\ pc' = [pc EXCEPT ![t] = "transcribe"]
    /\ UNCHANGED <<req, loopOwner, WORKER_THREAD, SHUTDOWN_EVENT, transcript, tr, sent, dispatches, uploads, tmpfiles, fallback, sends, enqueued, done, dIn, dOut>>

\* lines 177-178: queue.Empty after the timeout, continue
WorkerGetEmpty(t) ==
    /\ pc[t] = "get"
    /\ job_q = <<>>
    /\ pc' = [pc EXCEPT ![t] = "loop"]
    /\ UNCHANGED <<req, loopOwner, job_q, WORKER_THREAD, SHUTDOWN_EVENT, job, transcript, tr, sent, dispatches, uploads, tmpfiles, fallback, sends, enqueued, dequeued, done, dIn, dOut>>

\* lines 188, 98: ensure_wav_copy; if it raises, worker_loop's except clause
\* (lines 189-191) makes the error text the transcript
TrNormalize(t) ==
    /\ pc[t] = "transcribe"
    /\ LET audio == req[job[t]].audio IN
       IF audio.dec
       THEN /\ tr' = [tr EXCEPT ![t] = [NoTr EXCEPT !.wav = TRUE, !.dur = audio.ms]]
            /\ tmpfiles' = tmpfiles \cup {WavFile(job[t])}
            /\ pc' = [pc EXCEPT ![t] = "tr_branch"]
            /\ UNCHANGED transcript
       ELSE /\ tr' = [tr EXCEPT ![t] = [NoTr EXCEPT !.exc = "normalize"]]
            /\ transcript' = [transcript EXCEPT ![t] = TranscriptionFailed]
            /\ pc' = [pc EXCEPT ![t] = "dispatch"]
            /\ UNCHANGED tmpfiles
    /\ UNCHANGED <<req, loopOwner, job_q, WORKER_THREAD, SHUTDOWN_EVENT, job, sent, dispatches, uploads, fallback, sends, enqueued, dequeued, done, dIn, dOut>>

\* lines 100-102: the decision rule, and split_audio_to_files when chunking
TrBranch(t) ==
    /\ pc[t] = "tr_branch"
    /\ IF tr[t].dur > CHUNK_THRESHOLD_S * 1000
       THEN LET segs == split_audio_to_files(tr[t].dur) IN
            /\ tr' = [tr EXCEPT ![t].out_paths = segs]
            /\ tmpfiles' = tmpfiles \cup {ChunkFile(job[t], i) : i \in DOMAIN segs}
            /\ pc' = [pc EXCEPT ![t] = "tr_loop"]
       ELSE /\ pc' = [pc EXCEPT ![t] = "tr_single"]
            /\ UNCHANGED <<tr, tmpfiles>>
    /\ UNCHANGED <<req, loopOwner, job_q, WORKER_THREAD, SHUTDOWN_EVENT, job, transcript, sent, dispatches, uploads, fallback, sends, enqueued, dequeued, done, dIn, dOut>>

\* line 102 raising: chunk.export fails on segment k+1 after k chunk files
\* were written; the finally clause (121-126) removes the working file and
\* worker_loop's except clause makes the error text the transcript
TrSplitFails(t) ==
    /\ pc[t] = "tr_branch"
    /\ tr[t].dur > CHUNK_THRESHOLD_S * 1000
    /\ \E k \in 0..(Len(split_audio_to_files(tr[t].dur)) - 1) :
         tmpfiles' = (tmpfiles \cup {ChunkFile(job[t], i) : i \in 1..k}) \ {WavFile(job[t])}
    /\ tr' = [tr EXCEPT ![t].exc = "split"]
    /\ transcript' = [transcript EXCEPT ![t] = TranscriptionFailed]
    /\ pc' = [pc EXCEPT ![t] = "dispatch"]
    /\ UNCHANGED <<req, loopOwner, job_q, WORKER_THREAD, SHUTDOWN_EVENT, job, sent, dispatches, uploads, fallback, sends, enqueued, dequeued, done, dIn, dOut>>

\* the chunk loop without its inner try/except: a segment's inference error
\* leaves transcribe_file
TrChunk_propagates(t) ==
    /\ pc[t] = "tr_loop"
    /\ tr[t].idx < Len(tr[t].out_paths)
    /\ LET idx == tr[t].idx + 1 IN
       \E o \in InferOutcomes(req[job[t]].audio, idx, idx) :
         IF o = Raise
         THEN /\ tr' = [tr EXCEPT ![t].exc = "infer"]
              /\ transcript' = [transcript EXCEPT ![t] = TranscriptionFailed]
              /\ tmpfiles' = tmpfiles \ {WavFile(job[t])}
              /\ pc' = [pc EXCEPT ![t] = "dispatch"]
         ELSE /\ tr' = [tr EXCEPT ![t].idx = idx,
                                  ![t].parts = Append(@, transcribe_chunk(o)),
                                  ![t].calls = Append(@, idx)]
              /\ tmpfiles' = tmpfiles \ {ChunkFile(job[t], idx)}
              /\ UNCHANGED <<pc, transcript>>
    /\ UNCHANGED <<req, loopOwner, job_q, WORKER_THREAD, SHUTDOWN_EVENT, job, sent, dispatches, uploads, fallback, sends, enqueued, dequeued, done, dIn, dOut>>

\* lines 103-112: one iteration of the chunk loop: inference on the next
\* segment (or its error marker), the result appended, the chunk file removed
TrChunk(t) ==
    /\ pc[t] = "tr_loop"
    /\ tr[t].idx < Len(tr[t].out_paths)
    /\ LET idx == tr[t].idx + 1 IN
       /\ \E o \in InferOutcomes(req[job[t]].audio, idx, idx) :
            LET txt == IF o = Raise THEN ChunkErrorMarker(idx) ELSE transcribe_chunk(o)
            IN  tr' = [tr EXCEPT ![t].idx = idx,
                                 ![t].parts = Append(@, txt),
                                 ![t].calls = Append(@, idx),
                                 ![t].failed = IF o = Raise THEN @ \cup {idx} ELSE @]
       /\ tmpfiles' = tmpfiles \ {ChunkFile(job[t], idx)}
    /\ UNCHANGED <<req, loopOwner, job_q, WORKER_THREAD, SHUTDOWN_EVENT, pc, job, transcript, sent, dispatches, uploads, fallback, sends, enqueued, dequeued, done, dIn, dOut>>

\* lines 113-115 and 121-126: join, summary, working file removed, return
TrJoin(t) ==
    /\ pc[t] = "tr_loop"
    /\ tr[t].idx = Len(tr[t].out_paths)
    /\ transcript' = [transcript EXCEPT ![t] = ChunkedTranscript(tr[t].parts, Len(tr[t].out_paths), tr[t].dur)]
    /\ tmpfiles' = tmpfiles \ {WavFile(job[t])}
    /\ pc' = [pc EXCEPT ![t] = "dispatch"]
    /\ UNCHANGED <<req, loopOwner, job_q, WORKER_THREAD, SHUTDOWN_EVENT, job, tr, sent, dispatches, uploads, fallback, sends, enqueued, dequeued, done, dIn, dOut>>

\* lines 117-126: single pass on the working file; an inference error leaves
\* through the finally clause and becomes the error text in worker_loop
TrSingle(t) ==
    /\ pc[t] = "tr_single"
    /\ \E o \in InferOutcomes(req[job[t]].audio, 1, Len(Range(0, tr[t].dur, SegLenMs))) :
         /\ transcript' = [transcript EXCEPT ![t] =
                              IF o = Raise THEN TranscriptionFailed
                              ELSE SingleTranscript(Strip(o), tr[t].dur)]
         /\ tr' = [tr EXCEPT ![t].calls = Append(@, 0),
                              ![t].exc = IF o = Raise THEN "infer" ELSE "none"]
    /\ tmpfiles' = tmpfiles \ {WavFile(job[t])}
    /\ pc' = [pc EXCEPT ![t] = "dispatch"]
    /\ UNCHANGED <<req, loopOwner, job_q, WORKER_THREAD, SHUTDOWN_EVENT, job, sent, dispatches, uploads, fallback, sends, enqueued, dequeued, done, dIn, dOut>>

\* lines 193-203: the arguments worker_loop passes to
\* send_email_with_fallback for the job thread t holds
DispatchArgs(t) ==
    [to          |-> req[job[t]].email,
     subject     |-> Subject(job[t]),
     body        |-> Body(job[t], transcript[t]),
     attachments |-> Attachments(job[t], transcript[t]),
     path        |-> FallbackPath(job[t])]

\* the dispatcher skipped for a job whose transcription raised
WorkerDispatch_skip_failed(t) ==
    /\ pc[t] = "dispatch"
    /\ LET j == job[t] IN
       IF tr[t].exc # "none"
       THEN /\ pc' = [pc EXCEPT ![t] = "cleanup"]
            /\ UNCHANGED <<dispatches, sends, fallback, sent>>
       ELSE \E net \in TransportOutcomes, disk \in DiskOutcomes :
         LET a == DispatchArgs(t)
             r == send_email_with_fallback(a.to, a.subject, a.body, a.attachments, a.path, net, disk)
         IN  /\ dispatches' = [dispatches EXCEPT ![j] = @ + 1]
             /\ sends' = [sends EXCEPT ![j] = @ + r.sends]
             /\ fallback' = [fallback EXCEPT ![j] =
                    [exists   |-> @.exists \/ r.saved,
                     attempts |-> @.attempts + Len(r.writes)]]
             /\ sent' = [sent EXCEPT ![t] = r.ok]
             /\ pc' = [pc EXCEPT ![t] = IF r.raised THEN "task_done_exc" ELSE "cleanup"]
    /\ UNCHANGED <<req, loopOwner, job_q, WORKER_THREAD, SHUTDOWN_EVENT, job, transcript, tr, uploads, tmpfiles, enqueued, dequeued, done, dIn, dOut>>

\* lines 193-203: subject, body, send_email_with_fallback; an exception it
\* raises is not caught in worker_loop and leaves through the finally clause
WorkerDispatch(t) ==
    /\ pc[t] = "dispatch"
    /\ LET j == job[t] IN
       \E net \in TransportOutcomes, disk \in DiskOutcomes :
         LET a == DispatchArgs(t)
             r == send_email_with_fallback(a.to, a.subject, a.body, a.attachments, a.path, net, disk)
         IN  /\ dispatches' = [dispatches EXCEPT ![j] = @ + 1]
             /\ sends' = [sends EXCEPT ![j] = @ + r.sends]
             /\ fallback' = [fallback EXCEPT ![j] =
                    [exists   |-> @.exists \/ r.saved,
                     attempts |-> @.attempts + Len(r.writes)]]
             /\ sent' = [sent EXCEPT ![t] = r.ok]
             /\ pc' = [pc EXCEPT ![t] = IF r.raised THEN "task_done_exc" ELSE "cleanup"]
    /\ UNCHANGED <<req, loopOwner, job_q, WORKER_THREAD, SHUTDOWN_EVENT, job, transcript, tr, uploads, tmpfiles, enqueued, dequeued, done, dIn, dOut>>

\* lines 204-214: the uploaded audio file is removed, errors swallowed
WorkerCleanup(t) ==
    /\ pc[t] = "cleanup"
    /\ uploads' = uploads \ {job[t]}
    /\ pc' = [pc EXCEPT ![t] = "task_done"]
    /\ UNCHANGED <<req, loopOwner, job_q, WORKER_THREAD, SHUTDOWN_EVENT, job, transcript, tr, sent, dispatches, tmpfiles, fallback, sends, enqueued, dequeued, done, dIn, dOut>>

\* lines 216-217: finally: job_q.task_done(); then the next iteration, or
\* the pending exception ends worker_loop and the thread
WorkerTaskDone(t) ==
    /\ pc[t] \in {"task_done", "task_done_exc"}
    /\ done' = done \cup {job[t]}
    /\ req' = [req EXCEPT ![job[t]].email = <<>>, ![job[t]].audio = NoAudio, ![job[t]].late = FALSE]
    /\ pc' = [pc EXCEPT ![t] = IF pc[t] = "task_done_exc" THEN "dead" ELSE "loop"]
    /\ job' = [job EXCEPT ![t] = 0]
    /\ transcript' = [transcript EXCEPT ![t] = <<>>]
    /\ tr' = [tr EXCEPT ![t] = NoTr]
    /\ sent' = [sent EXCEPT ![t] = FALSE]
    /\ UNCHANGED <<loopOwner, job_q, WORKER_THREAD, SHUTDOWN_EVENT, dispatches, uploads, tmpfiles, fallback, sends, enqueued, dequeued, dIn, dOut>>

transcribe_file(t) ==
    \/ TrNormalize(t)
    \/ TrBranch(t)
    \/ TrChunk(t)
    \/ TrJoin(t)
    \/ TrSingle(t)

worker_loop(t) ==
    \/ WorkerLoop(t)
    \/ WorkerGet(t)
    \/ WorkerGetEmpty(t)
    \/ transcribe_file(t)
    \/ WorkerDispatch(t)
    \/ WorkerCleanup(t)
    \/ WorkerTaskDone(t)

submit(r) ==
    \/ SubmitBegin(r)
    \/ SubmitGuard(r)
    \/ SubmitStart(r)

Next ==
    \/ \E r \in Requests : submit(r)
    \/ \E t \in Threads : worker_loop(t)
    \/ shutdown

Spec == Init /\ [][Next]_vars

\* The scheduling the code gives: a started worker thread keeps running
\* (every collaborator call returns or raises), and a Submit coroutine that
\* has read its upload runs to its response on the event loop.  Nothing
\* obliges a further Submit call or a shutdown request to arrive.
Fairness ==
    /\ \A t \in Threads : WF_vars(worker_loop(t))
    /\ \A r \in Requests : WF_vars(SubmitGuard(r) \/ SubmitStart(r))

LiveSpec == Spec /\ Fairness

----------------------------------------------------------------------------
(* The system after a worker thread has ended without shutdown: job 1 was  *)
(* accepted with an address EmailMessage refuses, its dispatch raised and  *)
(* ended thread 1 after task_done; the jobs 2..MaxJobs were queued while   *)
(* thread 1 was alive and are still in the queue, and one more Submit call *)
(* (number MaxJobs + 1) can arrive.                                        *)

Leftover == 2..MaxJobs

NewCall == MaxJobs + 1

RRequests == 1..NewCall

\* the uploads that pass the duration guard
AcceptedAudio == { a \in SysAudio : ~(a.dec /\ a.ms > MAX_UPLOAD_S * 1000) }

RestartInit ==
    /\ \E q \in [Leftover -> [pc : {"accepted"}, email : { e \in Emails : HasAt(e) }, audio : AcceptedAudio, late : {FALSE}]] :
         req = [r \in RRequests |->
                  IF r = 1 THEN [NoReq EXCEPT !.pc = "accepted"]
                  ELSE IF r \in Leftover THEN q[r]
                  ELSE NoReq]
    /\ loopOwner = 0
    /\ job_q = [i \in 1..(MaxJobs - 1) |-> i + 1]
    /\ WORKER_THREAD = 1
    /\ SHUTDOWN_EVENT = FALSE
    /\ pc = [t \in RRequests |-> IF t = 1 THEN "dead" ELSE "none"]
    /\ job = [t \in RRequests |-> 0]
    /\ transcript = [t \in RRequests |-> <<>>]
    /\ tr = [t \in RRequests |-> NoTr]
    /\ sent = [t \in RRequests |-> FALSE]
    /\ dispatches = [j \in RRequests |-> IF j = 1 THEN 1 ELSE 0]
    /\ uploads = 1..MaxJobs
    /\ tmpfiles = {}
    /\ fallback = [j \in RRequests |-> NoFile]
    /\ sends = [j \in RRequests |-> 0]
    /\ enqueued = [i \in 1..MaxJobs |-> i]
    /\ dequeued = <<1>>
    /\ done = {1}
    /\ dIn = NoCall
    /\ dOut = NoCall

RestartNext ==
    \/ \E r \in RRequests : submit(r)
    \/ \E t \in RRequests : worker_loop(t)
    \/ shutdown

RestartSpec == RestartInit /\ [][RestartNext]_vars

----------------------------------------------------------------------------
(* transcribe_file on its own: one worker thread holding one job whose     *)
(* audio ranges over durations around the multiples of half a segment,     *)
(* with speech in any subset of its windows; chunk export may fail too.    *)

HalfSegMs == SegLenMs \div 2

TrDurations ==
    { d \in { k * HalfSegMs + o : k \in 0..MaxDurSteps, o \in {-1, 0, 1} } : d >= 0 }

TrAudio ==
    {NoAudio} \cup
    UNION { { [dec |-> TRUE, ms |-> d, speech |-> S] : S \in SUBSET Windows(d) } : d \in TrDurations }

TrInit ==
    /\ \E audio \in TrAudio :
         req = [r \in Requests |->
                  IF r = 1 THEN [pc |-> "accepted", email |-> <<97, AT, 98>>, audio |-> audio, late |-> FALSE]
                  ELSE NoReq]
    /\ loopOwner = 0
    /\ job_q = <<>>
    /\ WORKER_THREAD = 1
    /\ SHUTDOWN_EVENT = FALSE
    /\ pc = [t \in Threads |-> IF t = 1 THEN "transcribe" ELSE "none"]
    /\ job = [t \in Threads |-> IF t = 1 THEN 1 ELSE 0]
    /\ transcript = [t \in Threads |-> <<>>]
    /\ tr = [t \in Threads |-> NoTr]
    /\ sent = [t \in Threads |-> FALSE]
    /\ dispatches = [j \in Requests |-> 0]
    /\ uploads = {1}
    /\ tmpfiles = {}
    /\ fallback = [j \in Requests |-> NoFile]
    /\ sends = [j \in Requests |-> 0]
    /\ enqueued = <<1>>
    /\ dequeued = <<1>>
    /\ done = {}
    /\ dIn = NoCall
    /\ dOut = NoCall

TrNext ==
    \/ transcribe_file(1)
    \/ TrSplitFails(1)

TranscribeSpec == TrInit /\ [][TrNext]_vars

----------------------------------------------------------------------------
(* send_email_with_fallback on its own: one direct call, over addresses,   *)
(* bodies, attachment lists and fallback paths the worker never passes.    *)

TextPlain == <<116, SLASH, 112>>

Att(data, mime) == [fname |-> <<116>>, data |-> data, mime |-> mime]

\* "", "hello", and a two-byte character
DBodies == { <<>>, <<104, 101, 108, 108, 111>>, <<233>> }

\* no attachment, an empty payload, a payload, two attachments, a bad type
DAttachments ==
    { <<>>,
      <<Att(<<>>, TextPlain)>>,
      <<Att(<<104, 105>>, TextPlain)>>,
      <<Att(<<104, 105>>, TextPlain), Att(<<98>>, TextPlain)>>,
      <<Att(<<>>, TextPlain), Att(<<98>>, TextPlain)>>,
      <<Att(<<104, 105>>, <<116>>)>> }

\* no fallback path (None or ""), or the worker's path
DPaths == { <<>>, FallbackPath(1) }

DInit ==
    /\ req = [r \in Requests |-> NoReq]
    /\ loopOwner = 0
    /\ job_q = <<>>
    /\ WORKER_THREAD = 0
    /\ SHUTDOWN_EVENT = FALSE
    /\ pc = [t \in Threads |-> "none"]
    /\ job = [t \in Threads |-> 0]
    /\ transcript = [t \in Threads |-> <<>>]
    /\ tr = [t \in Threads |-> NoTr]
    /\ sent = [t \in Threads |-> FALSE]
    /\ dispatches = [j \in Requests |-> 0]
    /\ uploads = {}
    /\ tmpfiles = {}
    /\ fallback = [j \in Requests |-> NoFile]
    /\ sends = [j \in Requests |-> 0]
    /\ enqueued = <<>>
    /\ dequeued = <<>>
    /\ done = {}
    /\ dIn \in [called : {TRUE}, to : Emails, body : DBodies, attachments : DAttachments, path : DPaths]
    /\ dOut = NoCall

\* one call of send_email_with_fallback (lines 129-169) on the arguments dIn
DispatchCall ==
    /\ dIn.called
    /\ ~dOut.called
    /\ \E net \in TransportOutcomes, disk \in DiskOutcomes :
         dOut' = [called |-> TRUE, net |-> net, disk |-> disk,
                  res |-> send_email_with_fallback(dIn.to, Subject(1), dIn.body, dIn.attachments, dIn.path, net, disk)]
    /\ UNCHANGED <<req, loopOwner, job_q, WORKER_THREAD, SHUTDOWN_EVENT, pc, job, transcript, tr, sent, dispatches, uploads, tmpfiles, fallback, sends, enqueued, dequeued, done, dIn>>

DispatchSpec == DInit /\ [][DispatchCall]_vars

----------------------------------------------------------------------------
(* Properties *)

IsPrefix(a, b) == Len(a) <= Len(b) /\ \A i \in DOMAIN a : a[i] = b[i]

\* the jobs a worker has dequeued and not yet marked done
Processing == { dequeued[i] : i \in DOMAIN dequeued } \ done

\* C1: jobs leave the queue in the order they entered it, and by the time a
\* job is dequeued every job dequeued before it has ended its processing
\* (task_done was called for it), whatever happened while it was processed.
C1_FifoOrder ==
    /\ IsPrefix(dequeued, enqueued)
    /\ \A k \in DOMAIN dequeued : \A i \in 1..(k - 1) : dequeued[i] \in done

\* C1 witness: the first job's processing ended in a failure that stopped
\* its worker, and the second job is being processed by the next worker
C1_Witness ==
    /\ Len(dequeued) = 2
    /\ pc[1] = "dead" /\ ~SHUTDOWN_EVENT
    /\ job[2] = dequeued[2]
    /\ pc[2] = "dispatch"

\* C2: at most one worker thread is alive and at most one job is being
\* processed, at any time
C2_OneWorker ==
    /\ Cardinality({ t \in Threads : is_alive(t) }) <= 1
    /\ Cardinality(Processing) <= 1
    /\ \A t \in Threads : is_alive(t) => WORKER_THREAD = t

\* C2 witness: a second Submit called start_worker while the first worker
\* was processing a job, and no second thread was created
C2_Witness ==
    /\ \A r \in 1..2 : req[r].pc = "accepted"
    /\ is_alive(1) /\ job[1] # 0
    /\ pc[2] = "none"

\* C3 (as claimed): a worker thread ends only because shutdown was requested
C3_WorkerSurvives == \A t \in Threads : pc[t] = "dead" => SHUTDOWN_EVENT

\* C4 (as claimed): once the worker is finished with a job, the job's
\* uploaded audio file is gone
C4_UploadDeleted == \A j \in done : j \notin uploads

\* C5: when the dispatcher has returned to the worker, the job's fallback
\* path was opened for writing exactly once if delivery failed and not at
\* all if it succeeded; a fallback file exists only after a failed delivery
C5_OneFallbackWrite ==
    /\ \A t \in Threads :
         pc[t] \in {"cleanup", "task_done"} =>
           fallback[job[t]].attempts = (IF sent[t] THEN 0 ELSE 1)
    /\ \A j \in Requests :
         /\ fallback[j].attempts <= 1
         /\ fallback[j].exists => fallback[j].attempts = 1 /\ sends[j] = 1

\* C5 witness: a dispatch whose delivery failed has returned, with one write
C5_Witness ==
    \E t \in Threads :
      pc[t] = "cleanup" /\ ~sent[t] /\ fallback[job[t]].attempts = 1

\* C6 (as claimed): the payload written on delivery failure is the first
\* attachment's payload whenever an attachment exists, else the body's bytes
C6_FirstAttachmentAlways ==
    (dOut.called /\ dOut.res.writes # <<>>) =>
      dOut.res.writes[1] =
        (IF dIn.attachments # <<>> THEN dIn.attachments[1].data ELSE Utf8(dIn.body))

\* C6 (amended): the payload written on delivery failure is the first
\* attachment's payload if an attachment exists and its payload is not
\* empty, and otherwise the UTF-8 bytes of the body: "hello" gives the five
\* bytes of hello, and a two-byte character gives its two bytes
C6_FallbackContent ==
    (dOut.called /\ dOut.res.writes # <<>>) =>
      /\ dOut.res.writes[1] =
           (IF dIn.attachments # <<>> /\ dIn.attachments[1].data # <<>>
            THEN dIn.attachments[1].data ELSE Utf8(dIn.body))
      /\ (dIn.attachments = <<>> /\ dIn.body = <<104, 101, 108, 108, 111>>) =>
           dOut.res.writes[1] = <<104, 101, 108, 108, 111>>
      /\ (dIn.attachments = <<>> /\ dIn.body = <<233>>) =>
           dOut.res.writes[1] = <<195, 169>>

\* C6 witness: delivery failed with an empty first payload and a body
C6_Witness ==
    /\ dOut.called
    /\ dOut.res.writes # <<>>
    /\ dIn.attachments # <<>> /\ dIn.attachments[1].data = <<>>
    /\ dIn.body = <<233>>

\* C7: no job is dequeued twice, no job has more than one SMTP session
\* opened for it, and a dispatch that returned opened exactly one
C7_SendOnce ==
    /\ \A i, k \in DOMAIN dequeued : dequeued[i] = dequeued[k] => i = k
    /\ \A j \in Requests : sends[j] <= 1
    /\ \A t \in Threads :
         pc[t] \in {"cleanup", "task_done"} => sends[job[t]] = 1

\* C7 witness: after a worker restart, a failed delivery has returned
C7_Witness ==
    /\ pc[1] = "dead" /\ ~SHUTDOWN_EVENT
    /\ pc[2] = "cleanup" /\ ~sent[2] /\ sends[job[2]] = 1

\* the jobs that were ever put on the queue
Enqueued == { enqueued[i] : i \in DOMAIN enqueued }

\* the Submit calls answered with a validation error (status 400)
Rejected(r) == req[r].pc \in {"invalid_email", "too_long"}

\* C8: the step that rejects a Submit call leaves the queue as it was, a
\* rejected call's job is never on the queue, and every job put on the
\* queue has an address with "@" and no measured duration above the ceiling
C8_RejectedNeverQueued ==
    /\ [][\A r \in Requests :
            (~Rejected(r) /\ Rejected(r)') =>
              (job_q' = job_q /\ enqueued' = enqueued)]_vars
    /\ [](\A r \in Enqueued :
            /\ req[r].pc \in {"put", "accepted"}
            /\ r \notin done =>
                 /\ HasAt(req[r].email)
                 /\ ~(req[r].audio.dec /\ req[r].audio.ms > MAX_UPLOAD_S * 1000))

\* C8 witness: a call was rejected while an accepted job sat in the queue
C8_Witness ==
    /\ job_q # <<>>
    /\ \E r \in Requests : req[r].pc = "too_long"

Ceil(a, b) == (a + b - 1) \div b

\* C9: a working file of at most chunkThreshold seconds is transcribed in
\* one inference call on the whole file; a longer one is cut into
\* ceil(d / segmentLength) consecutive segments, each segmentLength long but
\* the last, which ends where the audio ends, and each is transcribed once,
\* in order (90 s gives 20, 20, 20, 20, 10)
C9_ChunkDecision ==
    \A t \in Threads :
      tr[t].wav =>
        LET d   == tr[t].dur
            seg == tr[t].out_paths
            n   == Len(seg)
            len == [i \in 1..n |-> seg[i].end_ms - seg[i].start_ms]
        IN  /\ pc[t] = "tr_single" => d <= CHUNK_THRESHOLD_S * 1000
            /\ pc[t] = "tr_loop" =>
                 /\ d > CHUNK_THRESHOLD_S * 1000
                 /\ n = Ceil(d, SEG_LEN_SECONDS * 1000)
                 /\ \A i \in 1..n :
                      /\ seg[i].start_ms = (i - 1) * SEG_LEN_SECONDS * 1000
                      /\ len[i] = IF i < n THEN SEG_LEN_SECONDS * 1000
                                  ELSE d - (n - 1) * SEG_LEN_SECONDS * 1000
                 /\ d = 90000 => len = <<20000, 20000, 20000, 20000, 10000>>
            /\ (pc[t] = "dispatch" /\ tr[t].calls # <<>>) =>
                 tr[t].calls = IF d <= CHUNK_THRESHOLD_S * 1000 THEN <<0>>
                               ELSE [i \in 1..Ceil(d, SEG_LEN_SECONDS * 1000) |-> i]

\* C9 witness: the 90-second clip cut into five segments, all transcribed
C9_Witness ==
    /\ pc[1] = "dispatch"
    /\ tr[1].dur = 90000
    /\ Len(tr[1].out_paths) = 5
    /\ tr[1].calls = <<1, 2, 3, 4, 5>>

RECURSIVE SplitBlank(_)
\* the blank-line separated positions of a text
SplitBlank(s) ==
    IF s = <<>> THEN <<>>
    ELSE LET cuts == { i \in 1..(Len(s) - 1) : s[i] = NL /\ s[i + 1] = NL }
         IN  IF cuts = {} THEN <<s>>
             ELSE LET i == CHOOSE c \in cuts : \A c2 \in cuts : c <= c2
                  IN  <<SubSeq(s, 1, i - 1)>> \o SplitBlank(SubSeq(s, i + 2, Len(s)))

\* the positions of the transcript body of a chunked transcription
BodyPositions(t) ==
    LET hdr == Len(ChunkedSummary(Len(tr[t].out_paths), tr[t].dur)) + Len(Blank)
    IN  SplitBlank(SubSeq(transcript[t], hdr + 1, Len(transcript[t])))

\* a chunked transcription has returned with exactly one failed segment
OneSegmentFailed(t) ==
    /\ pc[t] = "dispatch"
    /\ tr[t].out_paths # <<>>
    /\ tr[t].idx = Len(tr[t].out_paths)
    /\ Cardinality(tr[t].failed) = 1

\* what segment i should show in the body: a marker naming i if its
\* inference failed, else the word spoken in it (nothing if it is silent)
Shown(t, i) ==
    IF i \in tr[t].failed THEN <<91, 69>> \o Digits(i) \o <<58, 33, 93>>
    ELSE IF i \in req[job[t]].audio.speech THEN <<96 + i>>
    ELSE <<>>

\* C10 (as claimed): with exactly one failed segment out of N the body has
\* N positions, position k the marker naming k, the others the segments' texts
C10_NPositions ==
    \A t \in Threads :
      OneSegmentFailed(t) =>
        LET pos == BodyPositions(t)
            n   == Len(tr[t].out_paths)
        IN  /\ Len(pos) = n
            /\ \A i \in 1..n : pos[i] = Shown(t, i)

\* C10 (amended): with exactly one failed segment k out of N, the body has
\* one position for each segment that failed or returned a non-empty text,
\* in segment order: the marker naming k for segment k, and its text for
\* every other segment with text; a segment with an empty text has no position
C10_MarkerInOrder ==
    \A t \in Threads :
      OneSegmentFailed(t) =>
        LET pos   == BodyPositions(t)
            n     == Len(tr[t].out_paths)
            shown == { i \in 1..n : Shown(t, i) # <<>> }
            rank(i) == Cardinality({ k \in shown : k <= i })
        IN  /\ Len(pos) = Cardinality(shown)
            /\ tr[t].failed \subseteq shown
            /\ \A i \in shown : pos[rank(i)] = Shown(t, i)

\* C10 witness: five segments, the third failed, the second silent
C10_Witness ==
    /\ OneSegmentFailed(1)
    /\ Len(tr[1].out_paths) = 5
    /\ tr[1].failed = {3}
    /\ req[1].audio.speech = {1, 3, 4, 5}

\* C11 (as claimed): no exception ever leaves transcribe_file
C11_NeverRaises == \A t \in Threads : tr[t].exc = "none"

\* C11 (amended): the transcription step of a job always ends with a
\* non-empty transcript string, but transcribe_file itself captures as text
\* only the inference failures of the segments in chunked mode (a marker per
\* failed segment, inside a transcript with its summary); a failure of
\* normalization, of segmentation or of the single-pass inference leaves
\* transcribe_file as an exception, and it is worker_loop that turns it into
\* the error text
C11_RaisesAreCaught ==
    \A t \in Threads :
      pc[t] = "dispatch" =>
        LET audio == req[job[t]].audio
            long  == tr[t].dur > CHUNK_THRESHOLD_S * 1000
        IN  /\ transcript[t] # <<>>
            /\ (tr[t].exc = "normalize") <=> ~audio.dec
            /\ tr[t].exc = "split" => (long /\ tr[t].calls = <<>>)
            /\ tr[t].exc = "infer" => (audio.dec /\ ~long /\ tr[t].calls = <<0>>)
            /\ tr[t].exc # "none" => transcript[t] = TranscriptionFailed
            /\ tr[t].exc = "none" =>
                 transcript[t] =
                   (IF long
                    THEN ChunkedTranscript(tr[t].parts, Len(tr[t].out_paths), tr[t].dur)
                    ELSE SingleTranscript(Strip(Words(audio, 1, Len(Range(0, tr[t].dur, SegLenMs)))), tr[t].dur))
            /\ \A i \in tr[t].failed :
                 /\ tr[t].exc = "none"
                 /\ tr[t].parts[i] = <<91, 69>> \o Digits(i) \o <<58, 33, 93>>

\* C11 witness: the single-pass inference failed, the exception left
\* transcribe_file and the worker holds the error text
C11_Witness ==
    /\ pc[1] = "dispatch"
    /\ tr[1].exc = "infer"
    /\ tr[1].wav
    /\ transcript[1] = TranscriptionFailed

\* C12 (as claimed): a call of send_email_with_fallback always returns a
\* pair (delivered, error detail), the detail present exactly when delivered
\* is false, whatever the arguments and whatever fails
C12_DispatchNeverRaises ==
    dOut.called =>
      /\ ~dOut.res.raised
      /\ dOut.res.ok <=> (dOut.res.err = <<>>)

\* the transport send for job j succeeded
Delivered(j) == sends[j] = 1 /\ fallback[j].attempts = 0

\* a fallback write was attempted for job j
DeliveredViaFallback(j) == fallback[j].attempts >= 1

\* C13 (as claimed): every job put on the queue is eventually delivered or
\* has its fallback write attempted, unless shutdown is requested, with the
\* worker and the running Submit calls scheduled fairly and no further
\* Submit call needed
C13_EveryJobEnds ==
    \A j \in Requests :
      (j \in Enqueued) ~> (Delivered(j) \/ DeliveredViaFallback(j) \/ SHUTDOWN_EVENT)

\* the worker thread t is past its call of send_email_with_fallback
AfterDispatch(t) == pc[t] \in {"cleanup", "task_done", "task_done_exc"}

\* C14: a job whose normalization failed (ensure_wav_copy raised) gets the
\* error text as its transcript, and the worker calls the dispatcher for it
\* exactly once, addressed to the job's submitter, with that transcript
\* inside the body and, encoded, as the one attachment; no job ends without
\* its dispatcher call and none gets a second one
C14_FailedJobDispatched ==
    /\ \A t \in Threads :
         (job[t] # 0 /\ tr[t].exc = "normalize") =>
           /\ pc[t] \in {"dispatch", "cleanup", "task_done", "task_done_exc"}
           /\ transcript[t] = TranscriptionFailed
           /\ DispatchArgs(t).to = req[job[t]].email
           /\ DispatchArgs(t).body = <<72, NL>> \o Digits(job[t]) \o <<NL, NL>> \o TranscriptionFailed \o <<NL, 82>>
           /\ Len(DispatchArgs(t).attachments) = 1
           /\ DispatchArgs(t).attachments[1].data = TranscriptionFailed
           /\ dispatches[job[t]] = (IF AfterDispatch(t) THEN 1 ELSE 0)
    /\ \A j \in Requests :
         /\ dispatches[j] <= 1
         /\ j \in done => dispatches[j] = 1

\* C14 witness: the dispatcher has returned for a job whose audio could not
\* be decoded, and the delivery succeeded
C14_Witness ==
    \E t \in Threads :
      /\ pc[t] = "cleanup"
      /\ tr[t].exc = "normalize"
      /\ dispatches[job[t]] = 1
      /\ sent[t]

\* C15: in chunked mode the segments are consecutive windows of the audio
\* in list order, segment i + 1 is handed to the engine only after segment
\* i's text or marker was appended, and the body of the returned transcript
\* is made of the non-empty results in segment order, whichever segments
\* failed, succeeded or came back empty
C15_TemporalOrder ==
    \A t \in Threads :
      LET seg == tr[t].out_paths
          n   == Len(seg)
      IN  /\ pc[t] = "tr_loop" =>
               /\ \A i \in 1..(n - 1) :
                    seg[i].start_ms < seg[i].end_ms /\ seg[i].end_ms = seg[i + 1].start_ms
               /\ tr[t].calls = [i \in 1..tr[t].idx |-> i]
               /\ Len(tr[t].parts) = tr[t].idx
               /\ \A i \in 1..tr[t].idx : tr[t].parts[i] = Shown(t, i)
          /\ (pc[t] = "dispatch" /\ n > 0 /\ tr[t].exc = "none") =>
               /\ tr[t].calls = [i \in 1..n |-> i]
               /\ BodyPositions(t) = NonEmpty([i \in 1..n |-> Shown(t, i)])

\* C15 witness: five segments transcribed, the second and fourth failed,
\* the third came back empty
C15_Witness ==
    /\ pc[1] = "dispatch"
    /\ Len(tr[1].out_paths) = 5
    /\ tr[1].failed = {2, 4}
    /\ req[1].audio.speech = {1, 5}
    /\ BodyPositions(1) = << <<97>>, ChunkErrorMarker(2), ChunkErrorMarker(4), <<101>> >>

\* C16 (as claimed): a worker thread that is running stops only after
\* shutdown was requested, and no worker thread is started once shutdown
\* was requested
C16_Lifecycle ==
    [][\A t \in Threads :
         /\ (is_alive(t) /\ ~is_alive(t)') => SHUTDOWN_EVENT
         /\ (~is_alive(t) /\ is_alive(t)') => ~SHUTDOWN_EVENT]_vars

\* the positions of worker_loop at which the thread holds a job
JobPcs ==
    {"transcribe", "tr_branch", "tr_loop", "tr_single", "dispatch", "cleanup", "task_done", "task_done_exc"}

TempFilesOf(j) == { f \in tmpfiles : f[1] = j }

\* C18 (as claimed): once normalization has succeeded, when transcribe_file
\* has ended, by return or by exception, neither the working file nor any
\* segment file it created is left on disk, and inside the chunk loop only
\* the files of the segments not yet transcribed remain
C18_NoTempFileLeft ==
    \A t \in Threads :
      /\ (pc[t] = "dispatch" /\ tr[t].wav) => TempFilesOf(job[t]) = {}
      /\ pc[t] = "tr_loop" =>
           TempFilesOf(job[t]) =
             {WavFile(job[t])} \cup
             { ChunkFile(job[t], i) : i \in (tr[t].idx + 1)..Len(tr[t].out_paths) }

\* the worker threads that passed the test of the event and are in
\* job_q.get: the only ones that can still take a job off the queue
Waiting == { t \in Threads : pc[t] = "get" }

\* the jobs in the queue
Queued == { job_q[i] : i \in DOMAIN job_q }

\* the event stays set; once it is set no thread enters job_q.get, a thread
\* at the loop test or started later can only end, and each job taken off
\* the queue uses up a thread that was waiting in job_q.get
AfterShutdownStep ==
    SHUTDOWN_EVENT =>
      /\ SHUTDOWN_EVENT'
      /\ \A t \in Threads :
           /\ pc'[t] = "get" => pc[t] = "get"
           /\ (pc[t] = "none" /\ pc'[t] # "none") => pc'[t] = "loop"
           /\ (pc[t] = "loop" /\ pc'[t] # "loop") => pc'[t] = "dead"
      /\ Waiting' \subseteq Waiting
      /\ Len(dequeued') - Len(dequeued) \in {0, 1}
      /\ Len(dequeued') - Len(dequeued) <= Cardinality(Waiting) - Cardinality(Waiting')

\* C19 (as claimed): the event is never cleared, at most one thread can
\* still take a job after it is set and threads started later end without
\* taking any, and every job put on the queue after the event was set is
\* still in the queue with its audio file on disk
C19_LateJobsStay ==
    /\ [][AfterShutdownStep]_vars
    /\ [](SHUTDOWN_EVENT => Cardinality(Waiting) <= 1)
    /\ [](\A r \in Requests : req[r].late => (r \in Queued /\ r \in uploads))

\* C19 (amended): the event is never cleared, at most one thread (one that
\* was already in job_q.get) can still take a job after it is set, and
\* threads started later end without taking any; a job put on the queue
\* after the event was set stays there with its audio file on disk, unless
\* it is the one job that the waiting thread takes, which may be such a
\* late job and is then processed like any other; once no thread is waiting
\* the queue never shrinks again
C19_AfterShutdown ==
    /\ [][AfterShutdownStep]_vars
    /\ [](SHUTDOWN_EVENT => Cardinality(Waiting) <= 1)
    /\ [](\A r \in Requests :
            req[r].late =>
              /\ SHUTDOWN_EVENT
              /\ r \in uploads \/ \E t \in Threads : job[t] = r
              /\ r \in Queued \/ \E t \in Threads : job[t] = r /\ Waiting = {})
    /\ [][(SHUTDOWN_EVENT /\ Waiting = {}) =>
            /\ IsPrefix(job_q, job_q')
            /\ dequeued' = dequeued
            /\ \A j \in Queued : j \in uploads']_vars

\* C19 witness: the thread that was waiting in job_q.get when shutdown was
\* requested has taken a job submitted afterwards and processed it up to
\* task_done, its audio file removed
C19_Witness ==
    \E t \in Threads :
      /\ SHUTDOWN_EVENT
      /\ job[t] # 0
      /\ req[job[t]].late
      /\ pc[t] = "task_done"
      /\ job[t] \notin uploads

----------------------------------------------------------------------------
\* the Submit call r goes from Enqueue to its acceptance response (start_worker ran)
SubmitReturns(r) == req[r].pc = "put" /\ req'[r].pc = "accepted"

\* the Worker thread has ended and no shutdown was requested
WorkerEndedUnasked == WORKER_THREAD # 0 /\ pc[WORKER_THREAD] = "dead" /\ ~SHUTDOWN_EVENT

\* C20: after the Worker thread ended without shutdown while Jobs remain
\* queued, (a) nothing is dequeued until the next accepted Submit, whose
\* start_worker leaves a new live Worker and the queue as Enqueue left it,
\* leftover Jobs first and the new Job last; (b) only that Worker dequeues,
\* always the head of the queue, so every leftover Job is taken in its
\* enqueue order and before the new Job; (c) the Job during which the old
\* Worker ended (Job 1) is never queued, held or dequeued again.
C20_RestartServesLeftovers ==
    /\ [][ /\ \A r \in DOMAIN req :
                (SubmitReturns(r) /\ WorkerEndedUnasked) =>
                    /\ WORKER_THREAD' # WORKER_THREAD
                    /\ pc'[WORKER_THREAD'] = "loop"
                    /\ job_q' = job_q
                    /\ job_q[Len(job_q)] = r
                    /\ \A i \in 1..(Len(job_q) - 1) : job_q[i] \in Leftover
           /\ \A t \in DOMAIN pc :
                (job'[t] # job[t] /\ job'[t] # 0) =>
                    /\ t = WORKER_THREAD /\ t # 1
                    /\ job_q # <<>>
                    /\ job'[t] = Head(job_q)
                    /\ job_q' = Tail(job_q)
                    /\ \A j \in Leftover : j < job'[t] => \E i \in 1..Len(dequeued) : dequeued[i] = j
         ]_vars
    /\ [](/\ (req[NewCall].pc # "accepted" => dequeued = <<1>>)
          /\ \A i \in 1..Len(dequeued) : dequeued[i] = enqueued[i]
          /\ \A i \in 2..Len(dequeued) : dequeued[i] # 1
          /\ \A i \in 1..Len(job_q) : job_q[i] # 1
          /\ \A t \in DOMAIN pc : job[t] # 1)

\* the new Worker (thread 2) holds the newly submitted Job after it has
\* finished every leftover Job, the old Worker ended and no shutdown requested
C20_Witness ==
    /\ ~SHUTDOWN_EVENT
    /\ pc[1] = "dead"
    /\ WORKER_THREAD = 2
    /\ job[2] = NewCall
    /\ Leftover # {}
    /\ Leftover \subseteq done
    /\ dequeued = [i \in 1..NewCall |-> i]

====
